---------------------------- MODULE Spec2Model ----------------------------
(***************************************************************************)
(* A model of mensabot (src/main.go): the canteen-plan scraper             *)
(* (trimNodeName, dishFromNode, dish.String), the command dispatcher       *)
(* (handleWebSocketEvent, handleCommand) and the bot's life cycle          *)
(* (newMensaBotFromConfig, setupGracefulShutdown, startListening).         *)
(*                                                                         *)
(* A Go string is a sequence of one-character strings.  Three characters   *)
(* are written as named tokens: "NBSP" is the non-breaking space (the      *)
(* bytes \xc2\xa0), "uuml" and "Uuml" are the letter u-umlaut in lower     *)
(* and upper case.                                                         *)
(***************************************************************************)
EXTENDS Integers, Sequences, FiniteSets, TLC

VARIABLES
    \* trimNodeName applied to one text
    tnIn, tnOut, tnPc,
    \* dishFromNode and dish.String applied to one node
    node, dishOut, row, dishPc,
    \* the bot: where the main and then the listener goroutine stands, how
    \* the process ended, the fields of mensabot, the goroutine of
    \* setupGracefulShutdown, the posts handed to CreatePost, the events
    \* taken from the EventChannel, and the event being handled
    pc, exit, wsClient, user, team, channelDebug, channelProduction,
    sig, sent, log, last

trimVars == <<tnIn, tnOut, tnPc>>
dishVars == <<node, dishOut, row, dishPc>>
botFields == <<wsClient, user, team, channelDebug, channelProduction>>
botVars == <<pc, exit, botFields, sig, sent, log, last>>
vars == <<trimVars, dishVars, botVars>>

(***************************************************************************)
(* Bounds of the model.                                                    *)
(***************************************************************************)
\* longest text handed to trimNodeName
MaxNameLen == 6
\* most nodes of class "price" under the parent of a dish node
MaxPrices == 4
\* most img nodes in a dish node
MaxIcons == 2
\* most events the listener takes from the EventChannel in one run
MaxEvents == 2

(***************************************************************************)
(* The parts of Go's strings package the program uses.                     *)
(***************************************************************************)
LowerLetters ==
    <<"a", "b", "c", "d", "e", "f", "g", "h", "i", "j", "k", "l", "m",
      "n", "o", "p", "q", "r", "s", "t", "u", "v", "w", "x", "y", "z", "uuml">>

UpperLetters ==
    <<"A", "B", "C", "D", "E", "F", "G", "H", "I", "J", "K", "L", "M",
      "N", "O", "P", "Q", "R", "S", "T", "U", "V", "W", "X", "Y", "Z", "Uuml">>

Digits == {"0", "1", "2", "3", "4", "5", "6", "7", "8", "9"}

\* unicode.ToLower of one character
ToLowerChar(c) ==
    IF \E i \in 1..Len(UpperLetters) : UpperLetters[i] = c
    THEN LowerLetters[CHOOSE i \in 1..Len(UpperLetters) : UpperLetters[i] = c]
    ELSE c

\* strings.ToLower
ToLower(s) == [i \in 1..Len(s) |-> ToLowerChar(s[i])]

\* strings.HasPrefix
HasPrefix(s, prefix) ==
    /\ Len(s) >= Len(prefix)
    /\ SubSeq(s, 1, Len(prefix)) = prefix

\* strings.Contains
Contains(s, sub) ==
    \E i \in 1..(Len(s) - Len(sub) + 1) : SubSeq(s, i, i + Len(sub) - 1) = sub

\* strings.Replace(s, old, new, -1) for a non-empty old: every
\* non-overlapping occurrence, found from the left, in one pass
RECURSIVE Replace(_, _, _)
Replace(s, old, new) ==
    IF Len(s) < Len(old) THEN s
    ELSE IF SubSeq(s, 1, Len(old)) = old
         THEN new \o Replace(SubSeq(s, Len(old) + 1, Len(s)), old, new)
         ELSE <<Head(s)>> \o Replace(Tail(s), old, new)

RECURSIVE TrimLeft(_, _)
TrimLeft(s, cutset) ==
    IF s # <<>> /\ Head(s) \in cutset THEN TrimLeft(Tail(s), cutset) ELSE s

RECURSIVE TrimRight(_, _)
TrimRight(s, cutset) ==
    IF s # <<>> /\ s[Len(s)] \in cutset
    THEN TrimRight(SubSeq(s, 1, Len(s) - 1), cutset)
    ELSE s

\* strings.Trim
Trim(s, cutset) == TrimRight(TrimLeft(s, cutset), cutset)

(***************************************************************************)
(* trimNodeName                                                            *)
(***************************************************************************)
\* a normaliser that repeats the four replacements until nothing changes
RECURSIVE trimNodeNameRepeated(_)
trimNodeNameRepeated(name) ==
    LET t0 == Trim(name, {" ", "\t", "\n"})
        t1 == Replace(t0, <<"(", " ">>, <<"(">>)
        t2 == Replace(t1, <<" ", ")">>, <<")">>)
        t3 == Replace(t2, <<" ", ",">>, <<",">>)
        t4 == Replace(t3, <<" ", " ">>, <<" ">>)
    IN  IF t4 = name THEN name ELSE trimNodeNameRepeated(t4)

trimNodeName(name) ==
    LET t0 == Trim(name, {" ", "\t", "\n"})
        t1 == Replace(t0, <<"(", " ">>, <<"(">>)
        t2 == Replace(t1, <<" ", ")">>, <<")">>)
        t3 == Replace(t2, <<" ", ",">>, <<",">>)
        t4 == Replace(t3, <<" ", " ">>, <<" ">>)
    IN  t4

(***************************************************************************)
(* dish, dishFromNode, dish.isFavorite, dish.String                        *)
(***************************************************************************)
\* the length of the prices array of a dish
PriceSlots == 3

\* CONFIG.Favorites as configured: the one substring "curry"
Favorites ==
    {<<"c", "u", "r", "r", "y">>}

\* the icon titles the switch of dishFromNode knows
TitleVegetarisch == <<"v", "e", "g", "e", "t", "a", "r", "i", "s", "c", "h">>
TitleVegan == <<"v", "e", "g", "a", "n">>
TitleRind == <<"m", "i", "t", " ", "r", "i", "n", "d">>
TitleSchwein == <<"m", "i", "t", " ", "s", "c", "h", "w", "e", "i", "n">>
TitleFisch == <<"m", "i", "t", " ", "f", "i", "s", "c", "h">>
TitleGefluegel == <<"m", "i", "t", " ", "g", "e", "f", "l", "uuml", "g", "e", "l">>
TitleLaktosefrei == <<"l", "a", "k", "t", "o", "s", "e", "f", "r", "e", "i">>

\* the markers dish.String writes, each with its leading space
MarkHeartEyes == <<" ", ":", "h", "e", "a", "r", "t", "_", "e", "y", "e", "s", ":">>
MarkSunflower == <<" ", ":", "s", "u", "n", "f", "l", "o", "w", "e", "r", ":">>
MarkCarrot == <<" ", ":", "c", "a", "r", "r", "o", "t", ":">>
MarkCow == <<" ", ":", "c", "o", "w", "2", ":">>
MarkPig == <<" ", ":", "p", "i", "g", "2", ":">>
MarkFish == <<" ", ":", "f", "i", "s", "h", ":">>
MarkRooster == <<" ", ":", "r", "o", "o", "s", "t", "e", "r", ":">>
MarkMilkGlass == <<" ", ":", "m", "i", "l", "k", "_", "g", "l", "a", "s", "s", ":">>

\* the zero value of the type dish
ZeroDish ==
    [name |-> <<>>,
     prices |-> [i \in 1..PriceSlots |-> <<>>],
     isVegetarian |-> FALSE,
     isVegan |-> FALSE,
     containsBeef |-> FALSE,
     containsPork |-> FALSE,
     containsFish |-> FALSE,
     containsChicken |-> FALSE,
     lactoseFree |-> FALSE]

\* the switch over the lower-cased title of every img node: does some icon
\* select the case `title`?
IconCase(n, title) ==
    \E i \in 1..Len(n.titles) : ToLower(n.titles[i]) = title

\* A node is [text, prices, titles]: scrape.Text of the dish-description
\* node, the texts of the nodes of class "price" under its parent, in
\* document order, and the title attributes of its img nodes, in document
\* order.  The outcome is [panicked, dish]: the assignment prices[i] = ...
\* with i >= 3 is a run-time panic (index out of range), and no dish is
\* returned.
dishFromNode(n) ==
    IF Len(n.prices) > PriceSlots
    THEN [panicked |-> TRUE, dish |-> ZeroDish]
    ELSE [panicked |-> FALSE,
          dish |->
            [name |-> trimNodeName(n.text),
             prices |-> [i \in 1..PriceSlots |->
                           IF i <= Len(n.prices)
                           THEN Replace(n.prices[i], <<"NBSP">>, <<>>)
                           ELSE <<>>],
             isVegetarian |-> IconCase(n, TitleVegetarisch) \/ IconCase(n, TitleVegan),
             isVegan |-> IconCase(n, TitleVegan),
             containsBeef |-> IconCase(n, TitleRind),
             containsPork |-> IconCase(n, TitleSchwein),
             containsFish |-> IconCase(n, TitleFisch),
             containsChicken |-> IconCase(n, TitleGefluegel),
             lactoseFree |-> IconCase(n, TitleLaktosefrei)]]

isFavorite(d) ==
    \E f \in Favorites : Contains(ToLower(d.name), f)

\* the rest of a row after the diet marker
RowTail(d) ==
    (IF d.containsBeef THEN MarkCow ELSE <<>>)
    \o (IF d.containsPork THEN MarkPig ELSE <<>>)
    \o (IF d.containsFish THEN MarkFish ELSE <<>>)
    \o (IF d.containsChicken THEN MarkRooster ELSE <<>>)
    \o (IF d.lactoseFree THEN MarkMilkGlass ELSE <<>>)
    \o <<" ", "|">>
    \o <<" ">> \o d.prices[1] \o <<" ", "/", "/", " ">> \o d.prices[2]
    \o <<" ", "/", "/", " ">> \o d.prices[3] \o <<" ", "|">>

\* a String that tests the two diet flags one after the other
dishStringBothMarkers(d) ==
    <<"|", " ">> \o d.name \o <<" ", "|">>
    \o (IF isFavorite(d) THEN MarkHeartEyes ELSE <<>>)
    \o (IF d.isVegan THEN MarkSunflower ELSE <<>>)
    \o (IF d.isVegetarian THEN MarkCarrot ELSE <<>>)
    \o RowTail(d)

dishString(d) ==
    <<"|", " ">> \o d.name \o <<" ", "|">>
    \o (IF isFavorite(d) THEN MarkHeartEyes ELSE <<>>)
    \o (IF d.isVegan THEN MarkSunflower
        ELSE IF d.isVegetarian THEN MarkCarrot ELSE <<>>)
    \o RowTail(d)

(***************************************************************************)
(* handleWebSocketEvent and handleCommand: the decisions                   *)
(***************************************************************************)
\* CONFIG.MentionName as configured: "@bot"
MentionName == <<"@", "b", "o", "t">>

\* the ids the server gives: bot.user.Id, another user's id, and the ids of
\* the channels bot.channelDebug, bot.channelProduction and one more
BotUser == "bot"
OtherUser == "alice"
DebugChannel == "debug"
ProductionChannel == "production"
OtherChannel == "town"

\* the class \w of Go's regexp: ASCII letters, digits and the underscore
WordChars ==
    {LowerLetters[i] : i \in 1..26} \cup {UpperLetters[i] : i \in 1..26}
    \cup Digits \cup {"_"}

\* regexp.MatchString of (?:^|\W)(w1|w2|...)(?:$|\W) on msg, `words` being
\* the alternatives w1, w2, ...: some occurrence of an alternative starts at
\* the start of the text or after a \W character, and ends at the end of the
\* text or before a \W character
MatchString(words, msg) ==
    \E w \in words :
        \E i \in 1..(Len(msg) - Len(w) + 1) :
            /\ SubSeq(msg, i, i + Len(w) - 1) = w
            /\ (i = 1 \/ msg[i - 1] \notin WordChars)
            /\ (i + Len(w) - 1 = Len(msg) \/ msg[i + Len(w)] \notin WordChars)

\* an alive pattern without the capital alternatives: alive|running|up
PatternAliveLowerOnly ==
    {<<"a", "l", "i", "v", "e">>,
     <<"r", "u", "n", "n", "i", "n", "g">>,
     <<"u", "p">>}

\* (a|A)live|(r|R)unning|(u|U)p
PatternAlive ==
    {<<c>> \o <<"l", "i", "v", "e">> : c \in {"a", "A"}}
    \cup {<<c>> \o <<"u", "n", "n", "i", "n", "g">> : c \in {"r", "R"}}
    \cup {<<c>> \o <<"p">> : c \in {"u", "U"}}

\* (h|H)eute|(t|T)oday
PatternToday ==
    {<<c>> \o <<"e", "u", "t", "e">> : c \in {"h", "H"}}
    \cup {<<c>> \o <<"o", "d", "a", "y">> : c \in {"t", "T"}}

\* (m|M)orgen|(t|T)omorrow
PatternTomorrow ==
    {<<c>> \o <<"o", "r", "g", "e", "n">> : c \in {"m", "M"}}
    \cup {<<c>> \o <<"o", "m", "o", "r", "r", "o", "w">> : c \in {"t", "T"}}

\* (l|L)egend(|e)
PatternLegend ==
    {<<c>> \o <<"e", "g", "e", "n", "d">> \o e : c \in {"l", "L"}, e \in {<<>>, <<"e">>}}

\* (c|C)ommmand|(h|H)elp: the first alternative is spelt with three m
PatternHelp ==
    {<<c>> \o <<"o", "m", "m", "m", "a", "n", "d">> : c \in {"c", "C"}}
    \cup {<<c>> \o <<"e", "l", "p">> : c \in {"h", "H"}}

\* the if / else if chain of handleCommand
Branch(msg) ==
    IF MatchString(PatternAlive, msg) THEN "alive"
    ELSE IF MatchString(PatternToday, msg) THEN "today"
    ELSE IF MatchString(PatternTomorrow, msg) THEN "tomorrow"
    ELSE IF MatchString(PatternLegend, msg) THEN "legend"
    ELSE IF MatchString(PatternHelp, msg) THEN "help"
    ELSE "fallback"

\* the text each branch hands to sendMessage (of writeDishes and
\* writeLegend: the first line)
ReplyMessage(branch) ==
    CASE branch = "alive" -> "Yes I'm up and running!"
      [] branch = "today" -> "**Heute gibt es:**"
      [] branch = "tomorrow" -> "**Morgen gibt es:**"
      [] branch = "legend" -> "**Legende:**"
      [] branch = "help" -> "TODO: Implement commands.."
      [] OTHER -> "What does this even mean?!"

\* a handleWebSocketEvent without the else-if of the debug channel
ShouldDispatchPrefixOnly(e, botUserId, debugId) ==
    /\ e.type = "posted"
    /\ e.user # botUserId
    /\ HasPrefix(e.msg, MentionName)

\* a handleWebSocketEvent without the test of the post's author
ShouldDispatchOwnPosts(e, botUserId, debugId) ==
    /\ e.type = "posted"
    /\ (HasPrefix(e.msg, MentionName) \/ e.channel = debugId)

\* handleWebSocketEvent: is handleCommand called?  An event is [type, user,
\* channel, msg]; its type is "nil" (event == nil), "other" (Event is not
\* "posted"), "badpost" (PostFromJson returns nil) or "posted".
ShouldDispatch(e, botUserId, debugId) ==
    /\ e.type = "posted"
    /\ e.user # botUserId
    /\ (HasPrefix(e.msg, MentionName) \/ e.channel = debugId)

\* a reply outside the thread, in the debug channel
ReplyPostToDebug(p, debugId) ==
    [msg |-> ReplyMessage(p.branch), channel |-> debugId, root |-> 0]

\* the post each branch of handleCommand hands to sendMessage:
\* (text, post.ChannelId, post.Id)
ReplyPost(p, debugId) ==
    [msg |-> ReplyMessage(p.branch), channel |-> p.channel, root |-> p.id]

\* the characters of the texts tried
NameAlphabet == {"(", ")", " ", ",", "x"}

NameTexts == UNION {[1..n -> NameAlphabet] : n \in 0..MaxNameLen}

NoEvent ==
    [id |-> 0, type |-> "none", user |-> "", channel |-> "", msg |-> <<>>,
     dispatched |-> FALSE, branch |-> "none"]

BotIdle ==
    /\ pc = "idle"
    /\ exit = "none"
    /\ wsClient = "nil"
    /\ user = "nil"
    /\ team = "nil"
    /\ channelDebug = "nil"
    /\ channelProduction = "nil"
    /\ sig = "off"
    /\ sent = <<>>
    /\ log = <<>>
    /\ last = NoEvent

DishIdle ==
    /\ node = [text |-> <<>>, prices |-> <<>>, titles |-> <<>>]
    /\ dishOut = [panicked |-> FALSE, dish |-> ZeroDish]
    /\ row = <<>>
    /\ dishPc = "idle"

InitTrim ==
    /\ tnIn \in NameTexts
    /\ tnOut = <<>>
    /\ tnPc = "call"
    /\ DishIdle
    /\ BotIdle

TrimNodeName ==
    /\ tnPc = "call"
    /\ tnOut' = trimNodeName(tnIn)
    /\ tnPc' = "done"
    /\ UNCHANGED <<tnIn, dishVars, botVars>>

NextTrim == TrimNodeName

SpecTrim == InitTrim /\ [][NextTrim]_vars

\* the text "(  x )": open paren, two spaces, x, one space, close paren
TextParenTwoSpaces == <<"(", " ", " ", "x", " ", ")">>

\* C7 as stated: trimNodeName maps "(  x )" to "(x)".
C7_Original ==
    (tnPc = "done" /\ tnIn = TextParenTwoSpaces) => tnOut = <<"(", "x", ")">>

\* C7 as amended: trimNodeName maps "(  x )" to "( x)": the single pass of
\* "( " -> "(" removes one of the two spaces, and no later pass removes the
\* other.
C7_TrimKeepsSecondSpace ==
    (tnPc = "done" /\ tnIn = TextParenTwoSpaces) => tnOut = <<"(", " ", "x", ")">>

C7_Witness ==
    tnPc = "done" /\ tnIn = TextParenTwoSpaces /\ tnOut = <<"(", " ", "x", ")">>

(***************************************************************************)
(* dishFromNode and dish.String applied to one node                        *)
(***************************************************************************)
NodeTexts ==
    {<<"C", "h", "i", "c", "k", "e", "n", " ", "C", "u", "r", "r", "y", " ", "B", "o", "w", "l">>,
     <<" ", "S", "a", "l", "a", "t", " ", "(", " ", "T", "o", "m", "a", "t", "e", " ", ",", " ", "G", "u", "r", "k", "e", " ", ")">>}

PriceTexts ==
    {<<"1", ",", "5", "0", "NBSP", "E">>,
     <<"2", ",", "0", "0">>}

IconTitles ==
    {<<"v", "e", "g", "a", "n">>,
     <<"V", "E", "G", "A", "N">>,
     <<"v", "e", "g", "a", "n", " ">>,
     <<"V", "e", "g", "e", "t", "a", "r", "i", "s", "c", "h">>,
     <<"m", "i", "t", " ", "r", "i", "n", "d">>,
     <<"M", "i", "t", " ", "G", "e", "f", "l", "Uuml", "g", "e", "l">>,
     <<"l", "a", "k", "t", "o", "s", "e", "f", "r", "e", "i">>,
     <<"b", "i", "o">>}

SeqsUpTo(S, n) == UNION {[1..k -> S] : k \in 0..n}

Nodes ==
    [text : NodeTexts,
     prices : SeqsUpTo(PriceTexts, MaxPrices),
     titles : SeqsUpTo(IconTitles, MaxIcons)]

TrimIdle ==
    /\ tnIn = <<>>
    /\ tnOut = <<>>
    /\ tnPc = "idle"

InitDish ==
    /\ node \in Nodes
    /\ dishOut = [panicked |-> FALSE, dish |-> ZeroDish]
    /\ row = <<>>
    /\ dishPc = "call"
    /\ TrimIdle
    /\ BotIdle

\* getCanteenPlan's call of dishFromNode on one dish node
DishFromNode ==
    /\ dishPc = "call"
    /\ dishOut' = dishFromNode(node)
    /\ dishPc' = IF dishFromNode(node).panicked THEN "panicked" ELSE "built"
    /\ UNCHANGED <<node, row, trimVars, botVars>>

\* writeDishes' call of d.String() on the dish
DishString ==
    /\ dishPc = "built"
    /\ row' = dishString(dishOut.dish)
    /\ dishPc' = "formatted"
    /\ UNCHANGED <<node, dishOut, trimVars, botVars>>

NextDish == DishFromNode \/ DishString

SpecDish == InitDish /\ [][NextDish]_vars

\* the number of places where sub occurs in s
CountOcc(s, sub) ==
    Cardinality({i \in 1..(Len(s) - Len(sub) + 1) : SubSeq(s, i, i + Len(sub) - 1) = sub})

DietSunflower == <<":", "s", "u", "n", "f", "l", "o", "w", "e", "r", ":">>
DietCarrot == <<":", "c", "a", "r", "r", "o", "t", ":">>

\* some icon title of the node is "vegan" in some letter case
NodeHasVeganIcon ==
    \E i \in 1..Len(node.titles) : ToLower(node.titles[i]) = TitleVegan

\* C5 as stated: for any number n >= 0 of price cells dishFromNode produces
\* a Dish (it does not fail) whose slot i holds the i-th price text, with the
\* non-breaking spaces removed, for i < min(n,3), and the empty string from
\* n on.
C5_PricesPositionalNoFailure ==
    dishPc # "call" =>
        /\ ~dishOut.panicked
        /\ \A i \in 1..PriceSlots :
             dishOut.dish.prices[i] =
                IF i <= Len(node.prices)
                THEN Replace(node.prices[i], <<"NBSP">>, <<>>)
                ELSE <<>>

\* C6: a dish built from a node with a "vegan" icon title, in any letter
\* case and at any place among the icons, has isVegetarian = TRUE, and its
\* row holds the vegan marker once and no vegetarian marker; no row holds
\* both markers.
C6_VeganOneDietMarker ==
    /\ (dishPc \in {"built", "formatted"} /\ NodeHasVeganIcon) =>
            dishOut.dish.isVegetarian
    /\ (dishPc = "formatted" /\ NodeHasVeganIcon) =>
            /\ CountOcc(row, DietSunflower) = 1
            /\ CountOcc(row, DietCarrot) = 0
    /\ dishPc = "formatted" =>
            ~(Contains(row, DietCarrot) /\ Contains(row, DietSunflower))

C6_Witness ==
    /\ dishPc = "formatted"
    /\ Len(node.titles) = 2
    /\ node.titles[1] = <<"V", "e", "g", "e", "t", "a", "r", "i", "s", "c", "h">>
    /\ node.titles[2] = <<"V", "E", "G", "A", "N">>
    /\ dishOut.dish.isVegetarian
    /\ Contains(row, DietSunflower)

(***************************************************************************)
(* The bot: main, newMensaBotFromConfig, the goroutine of                  *)
(* setupGracefulShutdown, startListening and the handling of events.       *)
(*                                                                         *)
(* pc is the call the main goroutine, and after `go bot.startListening()`  *)
(* the listener goroutine, makes next; each action is one call up to the   *)
(* next blocking request.  exit is "none" while the process runs, and      *)
(* else how it ended: "exit0" and "exit1" by os.Exit, "panicStartup",      *)
(* "panicFetch" and "panicShutdown" by a panic in newMensaBotFromConfig,   *)
(* in getCanteenPlan and in the goroutine of setupGracefulShutdown.        *)
(* sig is that goroutine: "off" before signal.Notify, "armed" while it     *)
(* waits on the channel c, "pending" with a signal in c, "notify" after    *)
(* the test of bot.wsClient.  The goroutine reads bot.wsClient and         *)
(* bot.channelDebug while newMensaBotFromConfig writes them, without       *)
(* synchronisation: it sees the old or the new pointer, which is what the  *)
(* interleaving of the actions gives.                                      *)
(***************************************************************************)
Users == {BotUser, OtherUser}
Channels == {DebugChannel, ProductionChannel, OtherChannel}

\* the events of the EventChannel whose message is one of msgs
Events(msgs) ==
    [type : {"nil", "other", "badpost"}, user : {""}, channel : {""}, msg : {<<>>}]
    \cup [type : {"posted"}, user : Users, channel : Channels, msg : msgs]

\* the messages posted in the runs of the whole bot
BotMessages ==
    {<<"@", "b", "o", "t", " ", "h", "e", "u", "t", "e", " ", "b", "i", "t", "t", "e">>,
     <<"@", "b", "o", "t", " ", "m", "o", "r", "g", "e", "n">>,
     <<"a", "r", "e", " ", "y", "o", "u", " ", "u", "p">>,
     <<"l", "e", "g", "e", "n", "d", "e">>,
     <<"@", "b", "o", "t", " ", "h", "e", "l", "p">>,
     <<"h", "e", "l", "l", "o">>,
     <<"Y", "e", "s", " ", "I", "'", "m", " ", "u", "p", " ", "a", "n", "d", " ", "r", "u", "n", "n", "i", "n", "g", "!">>}

InitBot ==
    /\ pc = "setupGracefulShutdown"
    /\ exit = "none"
    /\ wsClient = "nil"
    /\ user = "nil"
    /\ team = "nil"
    /\ channelDebug = "nil"
    /\ channelProduction = "nil"
    /\ sig = "off"
    /\ sent = <<>>
    /\ log = <<>>
    /\ last = NoEvent
    /\ TrimIdle
    /\ DishIdle

Running == exit = "none"

\* a panic of one of the calls of newMensaBotFromConfig
StartupPanic ==
    /\ exit' = "panicStartup"
    /\ UNCHANGED <<pc, botFields, sig, sent, log, last>>

SetupGracefulShutdown ==
    /\ Running
    /\ UNCHANGED <<trimVars, dishVars>>
    /\ pc = "setupGracefulShutdown"
    /\ sig' = "armed"
    /\ pc' = "ensureServerIsRunning"
    /\ UNCHANGED <<exit, botFields, sent, log, last>>

EnsureServerIsRunning ==
    /\ Running
    /\ UNCHANGED <<trimVars, dishVars>>
    /\ pc = "ensureServerIsRunning"
    /\ \/ /\ pc' = "loginAsBotUser"
          /\ UNCHANGED exit
       \/ /\ exit' = "exit1"
          /\ UNCHANGED pc
    /\ UNCHANGED <<botFields, sig, sent, log, last>>

LoginAsBotUser ==
    /\ Running
    /\ UNCHANGED <<trimVars, dishVars>>
    /\ pc = "loginAsBotUser"
    /\ \/ /\ user' = BotUser
          /\ pc' = "setTeam"
          /\ UNCHANGED <<exit, wsClient, team, channelDebug, channelProduction,
                         sig, sent, log, last>>
       \/ StartupPanic

SetTeam ==
    /\ Running
    /\ UNCHANGED <<trimVars, dishVars>>
    /\ pc = "setTeam"
    /\ \/ /\ team' = "team"
          /\ pc' = "NewWebSocketClient4"
          /\ UNCHANGED <<exit, wsClient, user, channelDebug, channelProduction,
                         sig, sent, log, last>>
       \/ StartupPanic

NewWebSocketClient ==
    /\ Running
    /\ UNCHANGED <<trimVars, dishVars>>
    /\ pc = "NewWebSocketClient4"
    /\ \/ /\ wsClient' = "open"
          /\ pc' = "getChannelDebug"
          /\ UNCHANGED <<exit, user, team, channelDebug, channelProduction,
                         sig, sent, log, last>>
       \/ StartupPanic

GetChannelDebug ==
    /\ Running
    /\ UNCHANGED <<trimVars, dishVars>>
    /\ pc = "getChannelDebug"
    /\ \/ /\ channelDebug' = DebugChannel
          /\ pc' = "getChannelProduction"
          /\ UNCHANGED <<exit, wsClient, user, team, channelProduction,
                         sig, sent, log, last>>
       \/ StartupPanic

GetChannelProduction ==
    /\ Running
    /\ UNCHANGED <<trimVars, dishVars>>
    /\ pc = "getChannelProduction"
    /\ \/ /\ channelProduction' = ProductionChannel
          /\ pc' = "startListening"
          /\ UNCHANGED <<exit, wsClient, user, team, channelDebug,
                         sig, sent, log, last>>
       \/ StartupPanic

\* startListening up to its loop: the start notice, then wsClient.Listen()
StartListening ==
    /\ Running
    /\ UNCHANGED <<trimVars, dishVars>>
    /\ pc = "startListening"
    /\ sent' = Append(sent, [msg |-> "has **started** running",
                             channel |-> channelDebug, root |-> 0])
    /\ pc' = "listen"
    /\ UNCHANGED <<exit, botFields, sig, log, last>>

\* one turn of the loop of startListening: handleWebSocketEvent(e), and in
\* it handleCommand up to its first request (the fetch of the plan, or the
\* CreatePost of the reply)
HandleWebSocketEvent(e) ==
    /\ Running
    /\ UNCHANGED <<trimVars, dishVars>>
    /\ pc = "listen"
    /\ LET d == ShouldDispatch(e, user, channelDebug)
           p == [id |-> Len(log) + 1, type |-> e.type, user |-> e.user,
                 channel |-> e.channel, msg |-> e.msg, dispatched |-> d,
                 branch |-> IF d THEN Branch(e.msg) ELSE "none"]
       IN  /\ last' = p
           /\ log' = Append(log, [type |-> p.type, user |-> p.user,
                                  channel |-> p.channel,
                                  dispatched |-> p.dispatched])
           /\ pc' = IF ~d THEN "listen"
                    ELSE IF p.branch \in {"today", "tomorrow"}
                         THEN "getCanteenPlan"
                         ELSE "sendMessage"
    /\ UNCHANGED <<exit, botFields, sig, sent>>

\* getCanteenPlan: the plan is fetched and parsed, or http.Get or html.Parse
\* fails (or dishFromNode leaves the prices array) and the call panics
GetCanteenPlan ==
    /\ Running
    /\ UNCHANGED <<trimVars, dishVars>>
    /\ pc = "getCanteenPlan"
    /\ \/ /\ pc' = "sendMessage"
          /\ UNCHANGED exit
       \/ /\ exit' = "panicFetch"
          /\ UNCHANGED pc
    /\ UNCHANGED <<botFields, sig, sent, log, last>>

\* the sendMessage of the branch taken (for a plan: in writeDishes); the
\* post is handed to CreatePost, whose error is only printed
SendReply ==
    /\ Running
    /\ UNCHANGED <<trimVars, dishVars>>
    /\ pc = "sendMessage"
    /\ sent' = Append(sent, ReplyPost(last, channelDebug))
    /\ pc' = "listen"
    /\ UNCHANGED <<exit, botFields, sig, log, last>>

\* an interrupt signal reaches the channel c
Interrupt ==
    /\ Running
    /\ UNCHANGED <<trimVars, dishVars>>
    /\ sig = "armed"
    /\ sig' = "pending"
    /\ UNCHANGED <<pc, exit, botFields, sent, log, last>>

\* the goroutine takes the signal: if bot.wsClient != nil { Close() }
ShutdownClose ==
    /\ Running
    /\ UNCHANGED <<trimVars, dishVars>>
    /\ sig = "pending"
    /\ wsClient' = IF wsClient # "nil" THEN "closed" ELSE wsClient
    /\ sig' = "notify"
    /\ UNCHANGED <<pc, exit, user, team, channelDebug, channelProduction,
                   sent, log, last>>

\* bot.sendMessage(..., bot.channelDebug.Id, "") and os.Exit(0); the read
\* of bot.channelDebug.Id panics while bot.channelDebug is nil
ShutdownNotify ==
    /\ Running
    /\ UNCHANGED <<trimVars, dishVars>>
    /\ sig = "notify"
    /\ \/ /\ channelDebug = "nil"
          /\ exit' = "panicShutdown"
          /\ UNCHANGED sent
       \/ /\ channelDebug # "nil"
          /\ sent' = Append(sent, [msg |-> "has **stopped** running",
                                   channel |-> channelDebug, root |-> 0])
          /\ exit' = "exit0"
    /\ UNCHANGED <<pc, botFields, sig, log, last>>

NextBot ==
    \/ SetupGracefulShutdown
    \/ EnsureServerIsRunning
    \/ LoginAsBotUser
    \/ SetTeam
    \/ NewWebSocketClient
    \/ GetChannelDebug
    \/ GetChannelProduction
    \/ StartListening
    \/ /\ Len(log) < MaxEvents
       /\ \E e \in Events(BotMessages) : HandleWebSocketEvent(e)
    \/ GetCanteenPlan
    \/ SendReply
    \/ Interrupt
    \/ ShutdownClose
    \/ ShutdownNotify

Spec == InitBot /\ [][NextBot]_vars

(***************************************************************************)
(* The dispatcher alone: the bot as it stands after a start without        *)
(* failure (the start notice sent, the listener in its loop), and the      *)
(* handling of one event whose message is any of DispatchMessages.         *)
(***************************************************************************)
DispatchWords ==
    {<<"a", "l", "i", "v", "e">>,
     <<"A", "l", "i", "v", "e">>,
     <<"A", "L", "I", "V", "E">>,
     <<"r", "u", "n", "n", "i", "n", "g">>,
     <<"R", "u", "n", "n", "i", "n", "g">>,
     <<"r", "U", "N", "N", "I", "N", "G">>,
     <<"u", "p">>,
     <<"U", "P">>,
     <<"u", "p", "p", "e", "r">>,
     <<"h", "e", "u", "t", "e">>,
     <<"t", "o", "d", "a", "y">>,
     <<"T", "o", "d", "a", "y">>,
     <<"m", "o", "r", "g", "e", "n">>,
     <<"t", "o", "m", "o", "r", "r", "o", "w">>,
     <<"l", "e", "g", "e", "n", "d">>,
     <<"L", "e", "g", "e", "n", "d", "e">>,
     <<"c", "o", "m", "m", "a", "n", "d">>,
     <<"c", "o", "m", "m", "m", "a", "n", "d">>,
     <<"h", "e", "l", "p">>,
     <<"H", "e", "l", "p">>,
     <<"h", "e", "l", "l", "o">>,
     <<>>}

\* what stands between the two words of a message: a space, a hyphen, an
\* underscore (a word character), or nothing
DispatchSeparators == {<<" ">>, <<"-">>, <<"_">>, <<>>}

\* every message is [mention prefix and a space] word separator word
DispatchMessages ==
    {pre \o w1 \o sep \o w2 :
        pre \in {<<>>, MentionName \o <<" ">>},
        w1 \in DispatchWords, sep \in DispatchSeparators, w2 \in DispatchWords}

InitDispatch ==
    /\ pc = "listen"
    /\ exit = "none"
    /\ wsClient = "open"
    /\ user = BotUser
    /\ team = "team"
    /\ channelDebug = DebugChannel
    /\ channelProduction = ProductionChannel
    /\ sig = "armed"
    /\ sent = <<[msg |-> "has **started** running",
                 channel |-> DebugChannel, root |-> 0]>>
    /\ log = <<>>
    /\ last = NoEvent
    /\ TrimIdle
    /\ DishIdle

NextDispatch ==
    \/ /\ Len(log) = 0
       /\ \E e \in Events(DispatchMessages) : HandleWebSocketEvent(e)
    \/ GetCanteenPlan
    \/ SendReply

SpecDispatch == InitDispatch /\ [][NextDispatch]_vars

(***************************************************************************)
(* The claims about the bot and the dispatcher.                            *)
(***************************************************************************)
\* the places in sent of the replies to the post with this id
Replies(id) == {i \in 1..Len(sent) : sent[i].root = id}

\* the ids of the posts handed to handleCommand
DispatchedIds == {i \in 1..Len(log) : log[i].dispatched}

\* the tokens of a message: its maximal runs of word characters
Tokens(msg) ==
    {SubSeq(msg, r[1], r[2]) :
        r \in {q \in (1..Len(msg)) \X (1..Len(msg)) :
                 /\ q[1] <= q[2]
                 /\ (q[1] = 1 \/ msg[q[1] - 1] \notin WordChars)
                 /\ (q[2] = Len(msg) \/ msg[q[2] + 1] \notin WordChars)
                 /\ \A k \in q[1]..q[2] : msg[k] \in WordChars}}

\* a word as written and with a capital first letter
Capitalised(w) == {w, <<UpperLetters[CHOOSE i \in 1..26 : LowerLetters[i] = w[1]]>> \o Tail(w)}

\* the keywords of the five branches as the specification lists them, each
\* as written or capitalised
KeywordsAlive ==
    Capitalised(<<"a", "l", "i", "v", "e">>)
    \cup Capitalised(<<"r", "u", "n", "n", "i", "n", "g">>)
    \cup Capitalised(<<"u", "p">>)
KeywordsToday ==
    Capitalised(<<"h", "e", "u", "t", "e">>) \cup Capitalised(<<"t", "o", "d", "a", "y">>)
KeywordsTomorrow ==
    Capitalised(<<"m", "o", "r", "g", "e", "n">>)
    \cup Capitalised(<<"t", "o", "m", "o", "r", "r", "o", "w">>)
KeywordsLegend ==
    Capitalised(<<"l", "e", "g", "e", "n", "d">>)
    \cup Capitalised(<<"l", "e", "g", "e", "n", "d", "e">>)
KeywordsHelp ==
    Capitalised(<<"c", "o", "m", "m", "a", "n", "d">>)
    \cup Capitalised(<<"h", "e", "l", "p">>)

HasToken(msg, keywords) == Tokens(msg) \cap keywords # {}

\* the lowest-numbered branch one of whose keywords is a token of msg
ClaimedBranch(msg) ==
    IF HasToken(msg, KeywordsAlive) THEN "alive"
    ELSE IF HasToken(msg, KeywordsToday) THEN "today"
    ELSE IF HasToken(msg, KeywordsTomorrow) THEN "tomorrow"
    ELSE IF HasToken(msg, KeywordsLegend) THEN "legend"
    ELSE IF HasToken(msg, KeywordsHelp) THEN "help"
    ELSE "fallback"

\* the event in hand was handed to handleCommand and its reply is sent
LastReplied == last.dispatched /\ pc = "listen" /\ exit = "none"

\* the one reply to the event in hand has this text
LastReplyIs(text) ==
    /\ Cardinality(Replies(last.id)) = 1
    /\ \A i \in Replies(last.id) : sent[i].msg = text

\* C1 as stated: every dispatched message takes the lowest-numbered branch
\* one of whose keywords (alive|running|up, heute|today, morgen|tomorrow,
\* legend|legende, command|help) occurs as a token, and the fallback only
\* when no keyword occurs; a message with a today token and a help token
\* takes the today branch.
C1_FirstKeywordBranchWins ==
    last.dispatched => last.branch = ClaimedBranch(last.msg)

\* C4 as stated: a dispatched message with the token "command" or the
\* token "help" and no token of a branch of higher priority takes the help
\* branch and is answered with the help message, not the fallback message.
C4_CommandOrHelpGetsHelp ==
    ( /\ last.dispatched
      /\ HasToken(last.msg, {<<"c", "o", "m", "m", "a", "n", "d">>, <<"h", "e", "l", "p">>})
      /\ ~HasToken(last.msg, KeywordsAlive \cup KeywordsToday
                              \cup KeywordsTomorrow \cup KeywordsLegend) )
    => /\ last.branch = "help"
       /\ LastReplied => LastReplyIs("TODO: Implement commands..")

\* some token of the message is alive, running or up in some letter case
HasAliveTokenAnyCase(msg) ==
    \E t \in Tokens(msg) :
        ToLower(t) \in {<<"a", "l", "i", "v", "e">>,
                        <<"r", "u", "n", "n", "i", "n", "g">>,
                        <<"u", "p">>}

\* some token of the message is alive, running or up, all in lower case or
\* with a capital first letter only
HasAliveTokenFirstLetterCase(msg) ==
    \E t \in Tokens(msg) :
        t \in {<<"a", "l", "i", "v", "e">>, <<"A", "l", "i", "v", "e">>,
               <<"r", "u", "n", "n", "i", "n", "g">>, <<"R", "u", "n", "n", "i", "n", "g">>,
               <<"u", "p">>, <<"U", "p">>}

\* C9 as stated: a dispatched message with a token alive, running or up in
\* any letter case takes the alive branch and gets the "I'm up" reply.
C9_Original ==
    (last.dispatched /\ HasAliveTokenAnyCase(last.msg))
    => /\ last.branch = "alive"
       /\ LastReplied => LastReplyIs("Yes I'm up and running!")

\* C9 as amended: only the case of the first letter is free.  A dispatched
\* message takes the alive branch, and gets the "I'm up" reply, exactly when
\* one of its tokens is alive, Alive, running, Running, up or Up; another
\* letter-case variant (ALIVE, rUNNING, UP) does not select the branch.
C9_AliveFirstLetterCaseOnly ==
    last.dispatched =>
        /\ last.branch = "alive" <=> HasAliveTokenFirstLetterCase(last.msg)
        /\ (LastReplied /\ HasAliveTokenFirstLetterCase(last.msg))
                => LastReplyIs("Yes I'm up and running!")

C9_Witness ==
    /\ LastReplied
    /\ last.msg = <<"@", "b", "o", "t", " ", "R", "u", "n", "n", "i", "n", "g", " ", "t", "o", "d", "a", "y">>
    /\ last.branch = "alive"
    /\ LastReplyIs("Yes I'm up and running!")

\* the trigger rule as the specification states it
TriggerRule(p) == HasPrefix(p.msg, MentionName) \/ p.channel = DebugChannel

\* C2 as stated: a message-posted event is handed to the dispatcher if and
\* only if its text starts with the mention prefix or it was posted in the
\* debug channel.
C2_Original ==
    last.type = "posted" => (last.dispatched <=> TriggerRule(last))

\* C2 as amended: the rule holds for the posts of every user but the bot.
\* A decoded post of another user is dispatched if and only if its text
\* starts with the mention prefix or it was posted in the debug channel; a
\* post of the bot's own user is not dispatched, in the debug channel or
\* with the prefix either.
C2_TriggerRuleForOtherUsers ==
    /\ (last.type = "posted" /\ last.user # BotUser)
            => (last.dispatched <=> TriggerRule(last))
    /\ (last.type = "posted" /\ last.user = BotUser) => ~last.dispatched
    /\ last.type # "posted" => ~last.dispatched

C2_Witness ==
    /\ last.type = "posted"
    /\ last.user = OtherUser
    /\ last.channel = DebugChannel
    /\ ~HasPrefix(last.msg, MentionName)
    /\ last.dispatched
    /\ \E i \in 1..Len(log) :
            /\ log[i].type = "posted" /\ log[i].user = OtherUser
            /\ log[i].channel = ProductionChannel /\ ~log[i].dispatched

\* the handling of the dispatched post with this id is over: the listener
\* is back in its loop or went on to a later event, or getCanteenPlan
\* panicked in it
HandlingOver(id) ==
    \/ id # last.id
    \/ pc = "listen"
    \/ exit = "panicFetch"

\* C3 as stated: every dispatched message gets exactly one reply, in the
\* channel of the post and with the post's id as root; none is left
\* without its reply.
C3_Original ==
    \A id \in DispatchedIds :
        HandlingOver(id) =>
            /\ Cardinality(Replies(id)) = 1
            /\ \A i \in Replies(id) : sent[i].channel = log[id].channel

\* C3 as amended: every post sent with a root is the reply to a dispatched
\* message, in that message's channel and with the text of the branch
\* taken; a dispatched message gets at most one reply, and exactly one as
\* soon as handleCommand has returned.  A message of the today or tomorrow
\* branch whose fetch fails (getCanteenPlan panics and the process ends),
\* and a message in whose handling the interrupt goroutine ends the
\* process, is left without a reply.
C3_RepliesThreadedAtMostOnce ==
    /\ \A i \in 1..Len(sent) :
            sent[i].root # 0 =>
                /\ sent[i].root \in DispatchedIds
                /\ sent[i].channel = log[sent[i].root].channel
    /\ \A id \in DispatchedIds :
            /\ Cardinality(Replies(id)) <= 1
            /\ (id # last.id \/ pc = "listen") => Cardinality(Replies(id)) = 1
    /\ LastReplied => LastReplyIs(ReplyMessage(last.branch))

C3_Witness ==
    /\ Len(log) = 2
    /\ log[1].dispatched /\ log[1].channel = ProductionChannel
    /\ last.dispatched /\ last.channel = DebugChannel
    /\ last.branch = "today"
    /\ pc = "listen"
    /\ \E i, j \in 1..Len(sent) :
            /\ sent[i].root = 1 /\ sent[i].channel = ProductionChannel
            /\ sent[j].root = 2 /\ sent[j].channel = DebugChannel
            /\ sent[j].msg = "**Heute gibt es:**"

\* the shutdown notice is among the posts sent
StoppedNoticeSent ==
    \E i \in 1..Len(sent) :
        /\ sent[i].msg = "has **stopped** running"
        /\ sent[i].channel = DebugChannel

\* C8 as stated: once an interrupt has reached the installed hook, the
\* process does not end by the hook's goroutine without the event stream
\* connection closed (if there is one) and the shutdown notice sent to the
\* debug channel, whatever the main goroutine is at.
C8_InterruptSendsNoticeBeforeExit ==
    (sig \in {"pending", "notify"} /\ exit \in {"exit0", "panicShutdown"})
        => (StoppedNoticeSent /\ wsClient # "open")

\* C10: a posted event of the bot's own user is never handed to
\* handleCommand and gets no reply, in the debug channel and with the
\* mention prefix either, and the bot never has sent more replies than it
\* has received posts of other users.
C10_OwnPostsNeverAnswered ==
    /\ \A i \in 1..Len(log) :
            (log[i].type = "posted" /\ log[i].user = BotUser)
                => (~log[i].dispatched /\ Replies(i) = {})
    /\ (last.type = "posted" /\ last.user = BotUser) => last.branch = "none"
    /\ Cardinality({i \in 1..Len(sent) : sent[i].root # 0})
            <= Cardinality({i \in 1..Len(log) :
                                log[i].type = "posted" /\ log[i].user # BotUser})

C10_Witness ==
    /\ Len(log) = 2
    /\ log[1].dispatched
    /\ Replies(1) # {}
    /\ last.id = 2
    /\ last.user = BotUser
    /\ last.channel = DebugChannel
    /\ last.msg = <<"Y", "e", "s", " ", "I", "'", "m", " ", "u", "p", " ", "a", "n", "d", " ", "r", "u", "n", "n", "i", "n", "g", "!">>
    /\ ~last.dispatched
    /\ pc = "listen"

=============================================================================
